---- MODULE Spec2Model ----
(***************************************************************************)
(* Model of the quick intake form controller, QuickIntakeFormPage, in      *)
(* src/app/intake/form/page.tsx.                                           *)
(*                                                                         *)
(* The state is the component's React state (the six draft fields and the  *)
(* three view flags), the sessionId the tracking hook returns, and the     *)
(* network: the POST requests to /api/intake/save that have been sent and  *)
(* have not completed yet.  A text value is a sequence of one-character    *)
(* strings, so that length, trim, split and join are computed as the       *)
(* JavaScript code computes them.                                          *)
(***************************************************************************)
EXTENDS Integers, Sequences, FiniteSets, TLC

\* ------------------------------------------------------------------ bounds
\* Most requests one behaviour sends.
MaxSent == 2

\* ------------------------------------------------------------- characters
SP == " "
TAB == "\t"

\* The characters String.prototype.trim strips that occur in the inputs.
WhiteSpace == {SP, TAB}

\* ------------------------------------------------------- string functions
RECURSIVE TrimStart(_)
TrimStart(s) ==
    IF s # <<>> /\ Head(s) \in WhiteSpace THEN TrimStart(Tail(s)) ELSE s

RECURSIVE TrimEnd(_)
TrimEnd(s) ==
    IF s # <<>> /\ s[Len(s)] \in WhiteSpace
    THEN TrimEnd(SubSeq(s, 1, Len(s) - 1))
    ELSE s

\* s.trim()
Trim(s) == TrimEnd(TrimStart(s))

\* s.split(sep) for a one-character separator: the pieces between the
\* separators, empty pieces included ("".split(' ') is [""]).
RECURSIVE SplitFrom(_, _, _)
SplitFrom(s, sep, cur) ==
    IF s = <<>> THEN <<cur>>
    ELSE IF Head(s) = sep THEN <<cur>> \o SplitFrom(Tail(s), sep, <<>>)
    ELSE SplitFrom(Tail(s), sep, Append(cur, Head(s)))

Split(s, sep) == SplitFrom(s, sep, <<>>)

\* arr.filter(Boolean) on an array of strings: the empty string is falsy.
RECURSIVE FilterBoolean(_)
FilterBoolean(arr) ==
    IF arr = <<>> THEN <<>>
    ELSE IF Head(arr) = <<>> THEN FilterBoolean(Tail(arr))
    ELSE <<Head(arr)>> \o FilterBoolean(Tail(arr))

\* arr.join(sep)
RECURSIVE Join(_, _)
Join(arr, sep) ==
    IF arr = <<>> THEN <<>>
    ELSE IF Len(arr) = 1 THEN arr[1]
    ELSE arr[1] \o <<sep>> \o Join(Tail(arr), sep)

\* arr.slice(1)
Slice1(arr) == IF arr = <<>> THEN <<>> ELSE Tail(arr)

\* ------------------------------------------------------------ input values
Madonna == <<"M","a","d","o","n","n","a">>
MaryJaneWatson == <<"M","a","r","y",SP,"J","a","n","e",SP,SP,"W","a","t","s","o","n",SP>>
MaryTabJane == <<"M","a","r","y",TAB,"J","a","n","e">>
JoPadded == <<"J","o",SP>>

\* What the user may type or paste in the full name input.
NameInputs == {<<>>, JoPadded, Madonna, MaryJaneWatson, MaryTabJane}

TenDigits == <<"7","8","0","2","5","0","8","1","8","8">>
NineDigitsPadded == <<"7","8","0","2","5","0","8","1","8",SP>>
TenDigitsPadded == <<SP>> \o TenDigits \o <<SP>>

\* What the user may type or paste in the phone input.
PhoneInputs == {<<>>, NineDigitsPadded, TenDigits, TenDigitsPadded}

IssueTypes == {"work_injury", "mva", "sports", "chronic_pain", "other"}
Locations == {"edmonton-main-hub", "edmonton-west"}

\* What useTracking() may return as sessionId: undefined, '' or an id.
\* undefined is a value apart from every text: a sequence holding a token
\* that is no character.
Undefined == <<"undefined">>
SessionIds == {Undefined, <<>>, <<"a","b","c","1","2","3">>}

\* ---------------------------------------------------------------- messages
Null == "null"
ValidationMsg == "Please complete all required fields."
MissingSessionMsg == "Missing session. Please refresh and try again."
SubmitFailedMsg == "Something went wrong submitting your intake. Please call (780) 250-8188."

\* ------------------------------------------------------------------- state
VARIABLES
    fullName, phone, issueType, location, consentPrivacy, consentCommunication,
    isSubmitting, success, error,
    sessionId,
    inflight,   \* bodies of the requests sent and not completed, oldest first
    sent        \* number of requests sent so far

draft == <<fullName, phone, issueType, location, consentPrivacy, consentCommunication>>
view == <<isSubmitting, success, error>>
net == <<inflight, sent>>
vars == <<draft, view, sessionId, net>>

Init ==
    /\ fullName = <<>>
    /\ phone = <<>>
    /\ issueType = "work_injury"
    /\ location = "edmonton-main-hub"
    /\ consentPrivacy = TRUE
    /\ consentCommunication = TRUE
    /\ isSubmitting = FALSE
    /\ success = FALSE
    /\ error = Null
    /\ sessionId \in SessionIds
    /\ inflight = <<>>
    /\ sent = 0

\* ------------------------------------------------------------------ render
\* Variant: the early return of the success view is missing.
FormRenderedAlways == TRUE

\* The form (inputs, error banner and submit button) is rendered unless
\* success is set; otherwise the success card is.
FormRendered == ~success

\* What the component renders.
View ==
    IF ~FormRendered THEN "Success"
    ELSE IF isSubmitting THEN "Submitting"
    ELSE IF error # Null THEN "EditingWithError"
    ELSE "Editing"

\* Variant: the button ignores isSubmitting.
SubmitEnabledNoDisable == FormRendered

\* The submit button takes a click: rendered and not disabled.
SubmitEnabled == FormRendered /\ ~isSubmitting

\* -------------------------------------------------------------- validation
MinNameLen == 3
MinPhoneLen == 10

\* Variant: the consent literals are not part of the schema.
QuickIntakeSchemaNoConsent(o) ==
    /\ Len(o.full_name) >= MinNameLen
    /\ Len(o.phone) >= MinPhoneLen
    /\ o.issue_type \in IssueTypes
    /\ o.location \in Locations

\* QuickIntakeSchema.safeParse(o).success
QuickIntakeSchema(o) ==
    /\ Len(o.full_name) >= MinNameLen
    /\ Len(o.phone) >= MinPhoneLen
    /\ o.issue_type \in IssueTypes
    /\ o.location \in Locations
    /\ o.consent_privacy = TRUE
    /\ o.consent_communication = TRUE

\* The object onSubmit hands to safeParse.
ParseInput ==
    [ full_name |-> Trim(fullName),
      phone |-> Trim(phone),
      issue_type |-> issueType,
      location |-> location,
      consent_privacy |-> consentPrivacy,
      consent_communication |-> consentCommunication ]

\* Variant: only an undefined sessionId counts as missing.
SessionMissingUndefinedOnly == sessionId = Undefined

\* !sessionId
SessionMissing == sessionId = Undefined \/ sessionId = <<>>

\* ----------------------------------------------------------------- payload
\* Variant: the mva branch is missing.
issueTypeToInsuranceNoMva(t) ==
    IF t = "work_injury" THEN "wcb" ELSE "private"

issueTypeToInsurance(t) ==
    IF t = "work_injury" THEN "wcb"
    ELSE IF t = "mva" THEN "mva"
    ELSE "private"

names == FilterBoolean(Split(Trim(fullName), SP))
firstName == IF names # <<>> THEN names[1] ELSE <<>>
lastName == Join(Slice1(names), SP)

\* The JSON body of the request.
Payload ==
    [ session_id |-> sessionId,
      patient_data |-> [first_name |-> firstName, last_name |-> lastName, phone |-> phone],
      injury_data |-> [injury_type |-> issueType],
      insurance_data |-> [insurance_type |-> issueTypeToInsurance(issueType)],
      medical_history |-> <<>>,
      consent_data |-> [privacy_consent |-> TRUE, treatment_consent |-> FALSE,
                        communication_consent |-> TRUE],
      status |-> "submitted" ]

\* ------------------------------------------------------------- field edits
SetFullName ==
    /\ FormRendered
    /\ \E v \in NameInputs : fullName' = v
    /\ UNCHANGED <<phone, issueType, location, consentPrivacy, consentCommunication,
                   view, sessionId, net>>

SetPhone ==
    /\ FormRendered
    /\ \E v \in PhoneInputs : phone' = v
    /\ UNCHANGED <<fullName, issueType, location, consentPrivacy, consentCommunication,
                   view, sessionId, net>>

SetIssueType ==
    /\ FormRendered
    /\ \E v \in IssueTypes : issueType' = v
    /\ UNCHANGED <<fullName, phone, location, consentPrivacy, consentCommunication,
                   view, sessionId, net>>

SetLocation ==
    /\ FormRendered
    /\ \E v \in Locations : location' = v
    /\ UNCHANGED <<fullName, phone, issueType, consentPrivacy, consentCommunication,
                   view, sessionId, net>>

SetConsentPrivacy ==
    /\ FormRendered
    /\ \E v \in BOOLEAN : consentPrivacy' = v
    /\ UNCHANGED <<fullName, phone, issueType, location, consentCommunication,
                   view, sessionId, net>>

SetConsentCommunication ==
    /\ FormRendered
    /\ \E v \in BOOLEAN : consentCommunication' = v
    /\ UNCHANGED <<fullName, phone, issueType, location, consentPrivacy,
                   view, sessionId, net>>

\* The tracking hook returns another sessionId on a later render.
TrackingUpdate ==
    /\ \E v \in SessionIds : sessionId' = v
    /\ UNCHANGED <<draft, view, net>>

\* ------------------------------------------------------------------ submit
\* Variant: the error of the previous attempt is not cleared.
ErrorClearedKept == error

\* setError(null) at the start of onSubmit.
ErrorCleared == Null

\* onSubmit up to the await: a click on the enabled submit button.
onSubmit ==
    /\ SubmitEnabled
    /\ sent < MaxSent
    /\ IF ~QuickIntakeSchema(ParseInput)
       THEN /\ error' = ValidationMsg
            /\ UNCHANGED <<isSubmitting, success, net>>
       ELSE IF SessionMissing
       THEN /\ error' = MissingSessionMsg
            /\ UNCHANGED <<isSubmitting, success, net>>
       ELSE /\ error' = ErrorCleared
            /\ isSubmitting' = TRUE
            /\ inflight' = Append(inflight, Payload)
            /\ sent' = sent + 1
            /\ UNCHANGED success
    /\ UNCHANGED <<draft, sessionId>>

\* ------------------------------------------------------------- completions
RemoveAt(s, i) == SubSeq(s, 1, i - 1) \o SubSeq(s, i + 1, Len(s))

\* Variant: the flag is not reset when the request fails.
finallyBlockMissing == UNCHANGED isSubmitting

\* finally { setIsSubmitting(false) }
finallyBlock == isSubmitting' = FALSE

\* catch { setError(...) }
catchBlock == error' = SubmitFailedMsg /\ UNCHANGED success

\* fetch resolves with res.ok
ResponseOk ==
    /\ \E i \in DOMAIN inflight : inflight' = RemoveAt(inflight, i)
    /\ success' = TRUE
    /\ UNCHANGED error
    /\ finallyBlock
    /\ UNCHANGED <<draft, sessionId, sent>>

\* Variant: a failed request is sent again by the handler itself.
ResponseNotOkRetry ==
    /\ sent < MaxSent
    /\ \E i \in DOMAIN inflight :
          inflight' = Append(RemoveAt(inflight, i), inflight[i])
    /\ sent' = sent + 1
    /\ UNCHANGED <<draft, view, sessionId>>

\* fetch resolves with !res.ok: the handler throws into its own catch
ResponseNotOk ==
    /\ \E i \in DOMAIN inflight : inflight' = RemoveAt(inflight, i)
    /\ catchBlock
    /\ finallyBlock
    /\ UNCHANGED <<draft, sessionId, sent>>

\* fetch rejects
NetworkError ==
    /\ \E i \in DOMAIN inflight : inflight' = RemoveAt(inflight, i)
    /\ catchBlock
    /\ finallyBlock
    /\ UNCHANGED <<draft, sessionId, sent>>

Next ==
    \/ SetFullName
    \/ SetPhone
    \/ SetIssueType
    \/ SetLocation
    \/ SetConsentPrivacy
    \/ SetConsentCommunication
    \/ TrackingUpdate
    \/ onSubmit
    \/ ResponseOk
    \/ ResponseNotOk
    \/ NetworkError

Spec == Init /\ [][Next]_vars

TypeOK ==
    /\ fullName \in NameInputs
    /\ phone \in PhoneInputs
    /\ issueType \in IssueTypes
    /\ location \in Locations
    /\ consentPrivacy \in BOOLEAN
    /\ consentCommunication \in BOOLEAN
    /\ isSubmitting \in BOOLEAN
    /\ success \in BOOLEAN
    /\ error \in {Null, ValidationMsg, MissingSessionMsg, SubmitFailedMsg}
    /\ sessionId \in SessionIds
    /\ sent \in 0..MaxSent
    /\ Len(inflight) <= sent

\* ========================================================== properties
\* The request a step sends, when it sends one.
Sends == sent' = sent + 1
SentBody == inflight'[Len(inflight')]

\* The draft fails one of the constraints the claims name.
DraftInvalid ==
    \/ Len(Trim(fullName)) < 3
    \/ Len(Trim(phone)) < 10
    \/ ~consentPrivacy
    \/ ~consentCommunication

SessionAbsentOrEmpty == sessionId = Undefined \/ sessionId = <<>>

\* C1: the number of requests sent and not yet completed is never greater
\* than 1.
C1_AtMostOneOutstanding == Len(inflight) <= 1

\* A request is outstanding and the draft was edited to another valid one.
C1_Witness ==
    /\ Len(inflight) = 1
    /\ isSubmitting
    /\ ~DraftInvalid
    /\ ~SessionAbsentOrEmpty
    /\ inflight[1].injury_data.injury_type # issueType

\* C2: a submit action on a draft whose name trims to fewer than 3
\* characters, whose phone trims to fewer than 10, or with a consent flag
\* false sets the generic validation message, sends no request, does not
\* enter Submitting and leaves success false.
C2_InvalidDraftRejected ==
    [][(onSubmit /\ DraftInvalid) =>
          /\ error' = ValidationMsg
          /\ UNCHANGED net
          /\ ~isSubmitting'
          /\ View' # "Submitting"
          /\ ~success']_vars

\* A draft that fails on a consent flag alone was rejected.
C2_Witness ==
    /\ error = ValidationMsg
    /\ Len(Trim(fullName)) >= 3
    /\ Len(Trim(phone)) >= 10
    /\ ~consentCommunication
    /\ ~SessionAbsentOrEmpty
    /\ sent = 0

\* C3: a submit action taken while sessionId is absent or empty, on a valid
\* or an invalid draft, sends no request, does not set isSubmitting, leaves
\* success false and leaves the view in the error-annotated editing state.
C3_MissingSessionBlocks ==
    [][(onSubmit /\ SessionAbsentOrEmpty) =>
          /\ UNCHANGED net
          /\ ~isSubmitting'
          /\ ~success'
          /\ View' = "EditingWithError"]_vars

\* A valid draft was rejected for an empty sessionId.
C3_Witness ==
    /\ error = MissingSessionMsg
    /\ sessionId = <<>>
    /\ ~DraftInvalid
    /\ sent = 0

\* C4: success and a non-null error are never both set; a request that
\* completes with an HTTP success status leaves success set and error null,
\* one that completes with another status or a network error leaves error
\* set to the fallback message and success false.
C4_ExactlyOneOutcome ==
    [][/\ ~(success /\ error # Null)
       /\ ~(success' /\ error' # Null)
       /\ ResponseOk => (success' /\ error' = Null)
       /\ (ResponseNotOk \/ NetworkError) =>
             (~success' /\ error' = SubmitFailedMsg)]_vars

\* A request succeeded after an earlier one had failed.
C4_Witness == success /\ error = Null /\ sent = 2 /\ inflight = <<>>

\* C5: isSubmitting is set exactly when a request is outstanding.
C5_SubmittingIffOutstanding == isSubmitting <=> Len(inflight) >= 1

\* A request was sent and has failed: the indicator is off again.
C5_Witness ==
    /\ sent >= 1
    /\ inflight = <<>>
    /\ ~isSubmitting
    /\ error = SubmitFailedMsg

\* C6: a step sends a request exactly when it is a submit action on a valid
\* draft with a present sessionId, and it then sends exactly one.
C6_OneRequestPerAcceptedSubmit ==
    [][/\ sent' \in {sent, sent + 1}
       /\ Len(inflight') <= Len(inflight) + 1
       /\ Sends <=> (onSubmit /\ ~DraftInvalid /\ ~SessionAbsentOrEmpty)
       /\ Sends <=> (Len(inflight') = Len(inflight) + 1)]_vars

\* A second request is outstanding: the first one failed and the user
\* submitted again.
C6_Witness == sent = 2 /\ Len(inflight) = 1 /\ isSubmitting /\ error = Null

\* C7: once success is set it stays set and the success view stays rendered.
C7_SuccessIsTerminal ==
    [][success => (success' /\ View' = "Success")]_vars

\* The success view is shown, and something still happens: the tracking
\* hook has returned another sessionId since.
C7_Witness == success /\ View = "Success" /\ SessionAbsentOrEmpty

\* The tokens of s between runs of white space.
RECURSIVE WsTokensFrom(_, _)
WsTokensFrom(s, cur) ==
    IF s = <<>> THEN (IF cur = <<>> THEN <<>> ELSE <<cur>>)
    ELSE IF Head(s) \in WhiteSpace
         THEN (IF cur = <<>> THEN <<>> ELSE <<cur>>) \o WsTokensFrom(Tail(s), <<>>)
         ELSE WsTokensFrom(Tail(s), Append(cur, Head(s)))

WsTokens(s) == WsTokensFrom(s, <<>>)

HasWhiteSpace(s) == \E i \in DOMAIN s : s[i] \in WhiteSpace

\* C8: in every request sent, first_name is the first white-space token of
\* the draft's fullName and last_name the remaining tokens joined with
\* single spaces (empty when there is one token); first_name holds no white
\* space.
C8_NameSplitOnWhitespace ==
    [][Sends =>
          LET toks == WsTokens(fullName)
              p == SentBody.patient_data
          IN  /\ p.first_name = (IF toks = <<>> THEN <<>> ELSE toks[1])
              /\ p.last_name = Join(Slice1(toks), SP)
              /\ ~HasWhiteSpace(p.first_name)]_vars

\* C9: in every request sent, injury_type is the draft's issueType, one of
\* the five values, and insurance_type is wcb for work_injury, mva for mva
\* and private for sports, chronic_pain and other.
C9_InsuranceMapping ==
    [][Sends =>
          LET b == SentBody
              expected == [work_injury |-> "wcb", mva |-> "mva", sports |-> "private",
                           chronic_pain |-> "private", other |-> "private"]
          IN  /\ b.injury_data.injury_type = issueType
              /\ issueType \in {"work_injury", "mva", "sports", "chronic_pain", "other"}
              /\ b.insurance_data.insurance_type = expected[issueType]]_vars

\* A request for a motor vehicle accident is outstanding.
C9_Witness ==
    /\ Len(inflight) = 1
    /\ inflight[1].injury_data.injury_type = "mva"
    /\ inflight[1].insurance_data.insurance_type = "mva"

\* C10: the phone of every request sent is the draft's phone trimmed, of
\* length at least 10.
C10_PhoneIsTrimmed ==
    [][Sends =>
          /\ SentBody.patient_data.phone = Trim(phone)
          /\ Len(SentBody.patient_data.phone) >= 10]_vars

====
